---- MODULE Spec2Model ----
(***************************************************************************)
(* Resolution engine of the miniature Prolog interpreter (src/types.rs):   *)
(* terms, the shared binding cells of variables, renaming (instantiate),   *)
(* unification (Term/Predicate/List::unify, Variable::assign/compress),     *)
(* derivation (Predicate/List/Term::derive) and the debug trace, which      *)
(* formats terms through display.rs.                                        *)
(*                                                                         *)
(* A binding cell is an Rc<RefCell<Option<Term>>>.  Every clone of a       *)
(* Variable shares the cell, and ids are unique, so the heap of cells is   *)
(* the function `assignment` from id to <<>> (None) or <<t>> (Some(t)).    *)
(* A RefCell that is mutably borrowed panics on a second borrow; the set   *)
(* B threaded through the operators holds the ids of the cells that are    *)
(* mutably borrowed by the callers up the stack.                           *)
(***************************************************************************)
EXTENDS Integers, Sequences, FiniteSets, TLC

VARIABLES
    assignment,  \* the binding cells: id -> <<>> | <<term>>
    ID,          \* thread-local ID counter of next_id
    DEBUG,       \* thread-local DEBUG flag
    knowledge,   \* the knowledge base: sequence of clauses
    call         \* the last engine call: its inputs, pre-state and result

vars == <<assignment, ID, DEBUG, knowledge, call>>

----------------------------------------------------------------------------
(* Terms *)

Var(name, id) == [tag |-> "Var", name |-> name, id |-> id, args |-> <<>>]
Pred(name, args) == [tag |-> "Pred", name |-> name, id |-> 0, args |-> args]
ListT(args) == [tag |-> "List", name |-> "", id |-> 0, args |-> args]
Clause(result, conditions) == [result |-> result, conditions |-> conditions]

None == <<>>
Some(t) == <<t>>

\* Variable equality and hashing use (name, id)
Ident(v) == <<v.name, v.id>>

----------------------------------------------------------------------------
(* display.rs: formatting reads binding cells.  The result is TRUE when    *)
(* formatting completes and FALSE when it aborts: a cell that is mutably   *)
(* borrowed panics on borrow(), a cyclic binding recurses without end.     *)

RECURSIVE Display(_, _, _, _)
Display(t, cells, B, path) ==
    IF t.tag = "Var"
    THEN IF t.id \in B THEN FALSE
         ELSE IF t.id \in path THEN FALSE
         ELSE IF cells[t.id] = None THEN TRUE
         ELSE Display(cells[t.id][1], cells, B, path \cup {t.id})
    ELSE \A i \in 1..Len(t.args) : Display(t.args[i], cells, B, path)

\* debug_println!: formats its arguments only when the flag is set
debug_println(dbg, ts, cells, B) ==
    dbg => \A i \in 1..Len(ts) : Display(ts[i], cells, B, {})

---------------------------------------------------------------------------------------------------------------------------------------------------
(* Variable::compress.  The cell of self stays mutably borrowed while the  *)
(* variable it is bound to is compressed and read.                         *)

Compressed(ok, cells) == [ok |-> ok, cells |-> cells]

\* after v.compress(), v being the variable in the cell of id: read v's cell
\* and store a clone of its term in the cell of id
compress_store(id, v, r, B) ==
    IF ~r.ok THEN r
    ELSE IF v.id \in B \cup {id} THEN Compressed(FALSE, r.cells)
    ELSE IF r.cells[v.id] = None THEN r
    ELSE Compressed(TRUE, [r.cells EXCEPT ![id] = r.cells[v.id]])

RECURSIVE compress(_, _, _)
compress(id, cells, B) ==
    IF id \in B THEN Compressed(FALSE, cells)
    ELSE IF cells[id] = None THEN Compressed(TRUE, cells)
    ELSE IF cells[id][1].tag # "Var" THEN Compressed(TRUE, cells)
    ELSE compress_store(id, cells[id][1],
                        compress(cells[id][1].id, cells, B \cup {id}), B)

----------------------------------------------------------------------------
(* Unification.  A result is [res, cells] with res in Ok, Err, Abort.      *)

Res(res, cells) == [res |-> res, cells |-> cells]

RECURSIVE Term_unify(_, _, _, _, _)
RECURSIVE Predicate_unify_args(_, _, _, _, _)
RECURSIVE List_unify(_, _, _, _, _)

\* the end of Variable::assign: the trace line after self.compress()
assign_traced(v, c, B, dbg) ==
    IF ~c.ok THEN Res("Abort", c.cells)
    ELSE IF ~debug_println(dbg, <<v, c.cells[v.id][1]>>, c.cells, B)
         THEN Res("Abort", c.cells)
         ELSE Res("Ok", c.cells)

\* Variable::assign after the match on the cell: r is Ok with the cell
\* written, or the result of unifying the term in the cell with the new one
assign_matched(v, r, B, dbg) ==
    IF r.res # "Ok" THEN r
    ELSE assign_traced(v, compress(v.id, r.cells, B), B, dbg)

assign(v, term, cells, B, dbg) ==
    IF v.id \in B THEN Res("Abort", cells)
    ELSE assign_matched(v,
            IF cells[v.id] = None
            THEN Res("Ok", [cells EXCEPT ![v.id] = Some(term)])
            ELSE Term_unify(cells[v.id][1], term, cells, B \cup {v.id}, dbg),
            B, dbg)

\* the loop of Predicate::unify after the heads were unified with result r
Predicate_unify_tail(r, as, bs, B, dbg) ==
    IF r.res = "Ok"
    THEN Predicate_unify_args(Tail(as), Tail(bs), r.cells, B, dbg)
    ELSE r

Predicate_unify_args(as, bs, cells, B, dbg) ==
    IF as = <<>> /\ bs = <<>> THEN Res("Ok", cells)
    ELSE IF as = <<>> \/ bs = <<>> THEN Res("Err", cells)
    ELSE Predicate_unify_tail(Term_unify(Head(as), Head(bs), cells, B, dbg),
                              as, bs, B, dbg)

\* Predicate::unify without the comparison of the names
Predicate_unify_any_name(p, q, cells, B, dbg) ==
    IF ~debug_println(dbg, <<p, q>>, cells, B) THEN Res("Abort", cells)
    ELSE Predicate_unify_args(p.args, q.args, cells, B, dbg)

Predicate_unify(p, q, cells, B, dbg) ==
    IF ~debug_println(dbg, <<p, q>>, cells, B) THEN Res("Abort", cells)
    ELSE IF p.name # q.name THEN Res("Err", cells)
    ELSE Predicate_unify_args(p.args, q.args, cells, B, dbg)

\* List::unify after the heads were unified with result r
List_unify_tail(r, as, bs, B, dbg) ==
    IF r.res = "Ok"
    THEN List_unify(Tail(as), Tail(bs), r.cells, B, dbg)
    ELSE r

List_unify(as, bs, cells, B, dbg) ==
    IF ~debug_println(dbg, <<ListT(as), ListT(bs)>>, cells, B) THEN Res("Abort", cells)
    ELSE IF as = <<>> /\ bs = <<>> THEN Res("Ok", cells)
    ELSE IF as = <<>> \/ bs = <<>> THEN Res("Err", cells)
    ELSE List_unify_tail(Term_unify(Head(as), Head(bs), cells, B, dbg),
                         as, bs, B, dbg)

Term_unify(t, u, cells, B, dbg) ==
    IF ~debug_println(dbg, <<t, u>>, cells, B) THEN Res("Abort", cells)
    ELSE IF t.tag = "Var" THEN assign(t, u, cells, B, dbg)
    ELSE IF u.tag = "Var" THEN assign(u, t, cells, B, dbg)
    ELSE IF t.tag = "Pred" /\ u.tag = "Pred" THEN Predicate_unify(t, u, cells, B, dbg)
    ELSE IF t.tag = "List" /\ u.tag = "List" THEN List_unify(t.args, u.args, cells, B, dbg)
    ELSE Res("Err", cells)

----------------------------------------------------------------------------
(* Term::variables, List::variables, Predicate::variables: the variables   *)
(* that occur syntactically in a term; bindings are not followed.          *)

\* Term::variables that does not look into predicates and lists
Term_variables_top(t) == IF t.tag = "Var" THEN {t} ELSE {}

RECURSIVE Term_variables(_)
Term_variables(t) ==
    IF t.tag = "Var" THEN {t}
    ELSE UNION {Term_variables(t.args[i]) : i \in 1..Len(t.args)}

List_variables(ts) == UNION {Term_variables(ts[i]) : i \in 1..Len(ts)}

Predicate_variables(p) == List_variables(p.args)

----------------------------------------------------------------------------
(* Renaming.  A result is [out, dict, nid, cells]: the renamed value, the  *)
(* dict after the walk, the ID counter and the cells (brand_new adds one). *)

Inst(out, dict, nid, cells) == [out |-> out, dict |-> dict, nid |-> nid, cells |-> cells]

EmptyDict == <<>>

\* next_id and Variable::brand_new: the variable gets the counter's value and
\* a new unbound cell, the counter moves on
brand_new(name, nid) == Var(name, nid)

\* Variable::instantiate that keeps every variable
Variable_instantiate_keep(v, dict, nid, cells) == Inst(v, dict, nid, cells)

Variable_instantiate(v, dict, nid, cells) ==
    IF cells[v.id] # None THEN Inst(v, dict, nid, cells)
    ELSE IF Ident(v) \in DOMAIN dict THEN Inst(dict[Ident(v)], dict, nid, cells)
    ELSE Inst(brand_new(v.name, nid), dict @@ (Ident(v) :> brand_new(v.name, nid)),
              nid + 1, cells @@ (nid :> None))

RECURSIVE Term_instantiate(_, _, _, _)
RECURSIVE List_instantiate(_, _, _, _)

\* Cons(head renamed, tail renamed)
List_instantiate_cons(h, t) == Inst(<<h.out>> \o t.out, t.dict, t.nid, t.cells)

\* the tail is renamed with the dict left by the head
List_instantiate_tail(h, rest) ==
    List_instantiate_cons(h, List_instantiate(rest, h.dict, h.nid, h.cells))

List_instantiate(ts, dict, nid, cells) ==
    IF ts = <<>> THEN Inst(<<>>, dict, nid, cells)
    ELSE List_instantiate_tail(Term_instantiate(Head(ts), dict, nid, cells), Tail(ts))

\* a predicate or list with its arguments renamed
Term_instantiate_args(t, l) == Inst([t EXCEPT !.args = l.out], l.dict, l.nid, l.cells)

Term_instantiate(t, dict, nid, cells) ==
    IF t.tag = "Var" THEN Variable_instantiate(t, dict, nid, cells)
    ELSE Term_instantiate_args(t, List_instantiate(t.args, dict, nid, cells))

Clause_instantiate_built(r, b) == Inst(Clause(r.out, b.out), b.dict, b.nid, b.cells)

\* the conditions are renamed with the dict left by the result
Clause_instantiate_conditions(c, r) ==
    Clause_instantiate_built(r, List_instantiate(c.conditions, r.dict, r.nid, r.cells))

\* Clause::instantiate that renames the conditions with a dict of their own
Clause_instantiate_two_dicts(c, dict, nid, cells) ==
    Clause_instantiate_conditions(c,
        [Term_instantiate(c.result, dict, nid, cells) EXCEPT !.dict = EmptyDict])

Clause_instantiate(c, dict, nid, cells) ==
    Clause_instantiate_conditions(c, Term_instantiate(c.result, dict, nid, cells))

----------------------------------------------------------------------------
(* Derivation.  A result is [res, cells, nid, vs]; res is Ok, Err, Abort,  *)
(* or Diverge when the recursion is deeper than MaxDepth (the code has no  *)
(* depth limit and keeps recursing).                                       *)

MaxDepth == 6

DRes(res, cells, nid, vs) == [res |-> res, cells |-> cells, nid |-> nid, vs |-> vs]

FirstVar(vs) == CHOOSE x \in vs : \A y \in vs : x.id <= y.id

RECURSIVE compress_all(_, _)

compress_rest(rest, c) == IF ~c.ok THEN c ELSE compress_all(rest, c.cells)

compress_next(vs, v, cells) == compress_rest(vs \ {v}, compress(v.id, cells, {}))

\* for v in vs.iter() { v.compress(); }
compress_all(vs, cells) ==
    IF vs = {} THEN Compressed(TRUE, cells)
    ELSE compress_next(vs, FirstVar(vs), cells)

RECURSIVE derive_clauses(_, _, _, _, _, _, _)
RECURSIVE List_derive(_, _, _, _, _, _)

\* Ok(vs) after the variables of the target were compressed
derive_compressed(vs, c, nid) ==
    IF c.ok THEN DRes("Ok", c.cells, nid, vs) ELSE DRes("Abort", c.cells, nid, {})

derive_answer(vs, d) == derive_compressed(vs, compress_all(vs, d.cells), d.nid)

\* after fact.conditions.derive(knowledge) gave d for clause i
derive_conditions(goal, kb, i, d, dbg, fuel) ==
    IF d.res = "Err" THEN derive_clauses(goal, kb, i + 1, d.cells, d.nid, dbg, fuel)
    ELSE IF d.res # "Ok" THEN d
    ELSE derive_answer(Predicate_variables(goal), d)

\* after target.unify(&mut fact.result) gave u for clause i
derive_unified(goal, kb, i, fact, u, dbg, fuel) ==
    IF u.res = "Abort" THEN DRes("Abort", u.cells, fact.nid, {})
    ELSE IF u.res = "Err"
         THEN derive_clauses(goal, kb, i + 1, u.cells, fact.nid, dbg, fuel)
         ELSE derive_conditions(goal, kb, i,
                 List_derive(fact.out.conditions, kb, u.cells, fact.nid, dbg, fuel),
                 dbg, fuel)

\* one round of the loop: fact is clause i renamed
derive_fact(goal, kb, i, fact, dbg, fuel) ==
    derive_unified(goal, kb, i, fact,
                   Predicate_unify(goal, fact.out.result, fact.cells, {}, dbg),
                   dbg, fuel)

\* the loop unifying the target with the stored clause itself, not a renamed copy
derive_clauses_in_place(goal, kb, i, cells, nid, dbg, fuel) ==
    IF i > Len(kb) THEN DRes("Err", cells, nid, {})
    ELSE derive_fact(goal, kb, i, Inst(kb[i], EmptyDict, nid, cells), dbg, fuel)

\* the for loop of Predicate::derive from clause i on
derive_clauses(goal, kb, i, cells, nid, dbg, fuel) ==
    IF i > Len(kb) THEN DRes("Err", cells, nid, {})
    ELSE derive_fact(goal, kb, i, Clause_instantiate(kb[i], EmptyDict, nid, cells),
                     dbg, fuel)

Predicate_derive(goal, kb, cells, nid, dbg, fuel) ==
    IF fuel = 0 THEN DRes("Diverge", cells, nid, {})
    ELSE IF ~debug_println(dbg, <<goal>>, cells, {}) THEN DRes("Abort", cells, nid, {})
    ELSE derive_clauses(goal, kb, 1, cells, nid, dbg, fuel - 1)

Term_derive(t, kb, cells, nid, dbg, fuel) ==
    IF t.tag = "Var" THEN DRes("Ok", cells, nid, {t})
    ELSE IF t.tag = "Pred" THEN Predicate_derive(t, kb, cells, nid, dbg, fuel)
    ELSE List_derive(t.args, kb, cells, nid, dbg, fuel)

\* the variables of head and tail together
List_derive_both(h, t) ==
    IF t.res # "Ok" THEN t ELSE DRes("Ok", t.cells, t.nid, h.vs \cup t.vs)

\* after head.derive(knowledge) gave h
List_derive_tail(h, rest, kb, dbg, fuel) ==
    IF h.res # "Ok" THEN h
    ELSE List_derive_both(h, List_derive(rest, kb, h.cells, h.nid, dbg, fuel))

\* derivation of a list means derivation of the conjunction of each element
List_derive(ts, kb, cells, nid, dbg, fuel) ==
    IF ts = <<>> THEN DRes("Ok", cells, nid, {})
    ELSE List_derive_tail(Term_derive(Head(ts), kb, cells, nid, dbg, fuel),
                          Tail(ts), kb, dbg, fuel)

-----
(* The terms, goals and knowledge bases the engine is run on.  Parsed      *)
(* variables take their ids from the counter: V, W occur in clauses of the *)
(* knowledge base, X, Y in the terms and questions handed to the engine.   *)

V == Var("V", 1)
W == Var("W", 2)
X == Var("X", 3)
Y == Var("Y", 4)
Parsed == {V, W, X, Y}

a == Pred("a", <<>>)
b == Pred("b", <<>>)
f(t) == Pred("f", <<t>>)
g(t, u) == Pred("g", <<t, u>>)
p(t, u) == Pred("p", <<t, u>>)
q(t, u) == Pred("q", <<t, u>>)

UnifyTerms ==
    {X, Y, a, b, f(X), f(a), g(X, Y), g(a, b), ListT(<<X, a>>), ListT(<<b, Y>>)}

RenameTerms == {X, Y, a, f(X), g(X, Y)}

Goals ==
    {p(X, X), p(X, Y), p(X, b), p(f(X), Y), p(X, f(X)), p(Y, f(a)), q(X, Y)}

KnowledgeBases ==
    { <<Clause(p(V, V), <<>>)>>,
      <<Clause(p(a, a), <<>>), Clause(p(b, b), <<>>)>>,
      <<Clause(q(a, b), <<>>), Clause(p(V, V), <<q(V, W)>>)>> }

Clauses == UNION {{kb[i] : i \in 1..Len(kb)} : kb \in KnowledgeBases}

\* no id above MaxId is issued
MaxId == 8

NoTerm == ListT(<<>>)

Call(op, x, y, pre, preID, dbg, res, vs, out) ==
    [op |-> op, a |-> x, b |-> y, pre |-> pre, preID |-> preID, dbg |-> dbg,
     res |-> res, vs |-> vs, out |-> out]

\* a panic ends the process, a call that does not return never hands back control
Running == call.res \in {"Ok", "Err"}

----------------------------------------------------------------------------
(* The engine as a state machine *)

\* the parsed variables are unbound, no engine call has been made yet
Start(parsed, kbs) ==
    /\ assignment = [i \in {v.id : v \in parsed} |-> None]
    /\ ID = Cardinality(parsed) + 1
    /\ DEBUG = FALSE
    /\ knowledge \in kbs
    /\ call = Call("none", NoTerm, NoTerm, <<>>, 0, FALSE, "Ok", {}, NoTerm)

Init == Start(Parsed, {<<>>})

set_debug(flag) ==
    /\ Running
    /\ DEBUG' = flag
    /\ UNCHANGED <<assignment, ID, knowledge, call>>

\* Term::unify(t, u)
Unified(t, u, r) ==
    /\ assignment' = r.cells
    /\ call' = Call("unify", t, u, assignment, ID, DEBUG, r.res, {}, NoTerm)
    /\ UNCHANGED <<ID, DEBUG, knowledge>>

Unify(t, u) ==
    /\ Running
    /\ Unified(t, u, Term_unify(t, u, assignment, {}, DEBUG))

\* Predicate::derive(goal, knowledge)
Derived(goal, r) ==
    /\ assignment' = r.cells
    /\ ID' = r.nid
    /\ call' = Call("derive", goal, NoTerm, assignment, ID, DEBUG, r.res, r.vs, NoTerm)
    /\ UNCHANGED <<DEBUG, knowledge>>

\* no id above MaxId is issued
DerivedUpTo(goal, r) == r.nid <= MaxId + 1 /\ Derived(goal, r)

Derive(goal) ==
    /\ Running
    /\ DerivedUpTo(goal,
           Predicate_derive(goal, knowledge, assignment, ID, DEBUG, MaxDepth))

\* instantiate(&mut HashMap::new()) of a term or of a clause
Instantiated(op, x, r) ==
    /\ r.nid <= MaxId + 1
    /\ assignment' = r.cells
    /\ ID' = r.nid
    /\ call' = Call(op, x, NoTerm, assignment, ID, DEBUG, "Ok", {}, r.out)
    /\ UNCHANGED <<DEBUG, knowledge>>

InstantiateTerm(t) ==
    /\ Running
    /\ Instantiated("instantiate", t, Term_instantiate(t, EmptyDict, ID, assignment))

InstantiateClause(cl) ==
    /\ Running
    /\ Instantiated("instantiate_clause", cl,
                    Clause_instantiate(cl, EmptyDict, ID, assignment))

\* unification of terms
Next ==
    \/ \E flag \in BOOLEAN : set_debug(flag)
    \/ \E t \in UnifyTerms, u \in UnifyTerms : Unify(t, u)

Spec == Init /\ [][Next]_vars

\* renaming of terms and clauses whose variables unification has bound or not
NextRename ==
    \/ \E t \in RenameTerms, u \in RenameTerms : Unify(t, u)
    \/ \E t \in RenameTerms : InstantiateTerm(t)
    \/ \E cl \in Clauses : InstantiateClause(cl)

SpecRename == Init /\ [][NextRename]_vars

\* questions asked against a knowledge base
InitDerive == Start(Parsed, KnowledgeBases)

NextDerive ==
    \/ \E flag \in BOOLEAN : set_debug(flag)
    \/ \E goal \in Goals : Derive(goal)

SpecDerive == InitDerive /\ [][NextDerive]_vars

\* questions with unbound variables asked against ground facts
c == Pred("c", <<>>)
d == Pred("d", <<>>)

Facts == {Clause(p(s, t), <<>>) : s \in {a, b}, t \in {a, b}}

MaxFacts == 2

FactBases == UNION {[1..n -> Facts] : n \in 1..MaxFacts}

FactGoals == {p(s, t) : s \in {X, Y, a, b}, t \in {X, Y, a, b}}

InitFacts == Start(Parsed, FactBases)

AskFact(goal) ==
    /\ \A v \in Predicate_variables(goal) : assignment[v.id] = None
    /\ Derive(goal)

NextFacts == \E goal \in FactGoals : AskFact(goal)

SpecFacts == InitFacts /\ [][NextFacts]_vars

\* ground ancestor questions against parent facts and the two ancestor rules
X1 == Var("X", 1)
Y1 == Var("Y", 2)
Z == Var("Z", 5)
AncestorParsed == {X1, Y1, X, Y, Z}

parent(t, u) == Pred("parent", <<t, u>>)
ancestor(t, u) == Pred("ancestor", <<t, u>>)

Nodes == <<a, b, c, d>>

\* parent facts point from a node to a later node, so they are acyclic
Edges == {e \in (1..Len(Nodes)) \X (1..Len(Nodes)) : e[1] < e[2]}

MaxParents == 3

EdgeSeqs ==
    {es \in UNION {[1..n -> Edges] : n \in 0..MaxParents} :
        \A i \in DOMAIN es, j \in DOMAIN es : es[i] = es[j] => i = j}

AncestorRules ==
    << Clause(ancestor(X1, Y1), <<parent(X1, Y1)>>),
       Clause(ancestor(X, Y), <<parent(X, Z), ancestor(Z, Y)>>) >>

ParentFacts(es) ==
    [i \in DOMAIN es |-> Clause(parent(Nodes[es[i][1]], Nodes[es[i][2]]), <<>>)]

AncestorBases == {ParentFacts(es) \o AncestorRules : es \in EdgeSeqs}

InitAncestor == Start(AncestorParsed, AncestorBases)

AskAncestor(x, y) ==
    /\ call.op = "none"
    /\ Derived(ancestor(x, y),
               Predicate_derive(ancestor(x, y), knowledge, assignment, ID, DEBUG, MaxDepth))

NextAncestor ==
    \E i \in DOMAIN Nodes, j \in DOMAIN Nodes : AskAncestor(Nodes[i], Nodes[j])

SpecAncestor == InitAncestor /\ [][NextAncestor]_vars

TypeOK ==
    /\ DOMAIN assignment = 1..(ID - 1)
    /\ call.res \in {"Ok", "Err", "Abort", "Diverge"}

----------------------------------------------------------------------------
(* Reading terms through the binding cells *)

VarIds(t) == {v.id : v \in Term_variables(t)}

\* the ids of the variables reachable from the cells of ids by following
\* bindings through variable chains and predicate arguments
RECURSIVE ReachableFrom(_, _)
ReachableFrom(ids, cells) ==
    LET more == ids \cup UNION {VarIds(cells[i][1]) : i \in {j \in ids : cells[j] # None}}
    IN IF more = ids THEN ids ELSE ReachableFrom(more, cells)

BoundTo(id, cells) == IF cells[id] = None THEN {} ELSE VarIds(cells[id][1])

Acyclic(cells) ==
    \A id \in DOMAIN cells : id \notin ReachableFrom(BoundTo(id, cells), cells)

\* the depth to which a dereferenced term is unfolded
ResolveDepth == 6

Cut == Pred("...", <<>>)
Loop == Pred("<loop>", <<>>)

\* t with every variable replaced by what it walks to, to the given depth
RECURSIVE Resolve(_, _, _, _)
Resolve(t, cells, depth, seen) ==
    IF t.tag = "Var"
    THEN IF cells[t.id] = None THEN t
         ELSE IF t.id \in seen THEN Loop
         ELSE Resolve(cells[t.id][1], cells, depth, seen \cup {t.id})
    ELSE IF depth = 0 THEN Cut
    ELSE [t EXCEPT !.args =
              [i \in 1..Len(t.args) |-> Resolve(t.args[i], cells, depth - 1, {})]]

Deref(t, cells) == Resolve(t, cells, ResolveDepth, {})

IsCall(op) == call.op = op

----------------------------------------------------------------------------
(* C1: after a unify or derive call that returned Err, every binding cell  *)
(* that existed before the call holds the value it held before the call.   *)
C1_FailureLeavesBindings ==
    (call.op \in {"unify", "derive"} /\ call.res = "Err")
        => \A id \in DOMAIN call.pre : assignment[id] = call.pre[id]

(* C3: unifier soundness: when Term::unify(t, u) returns Ok from an        *)
(* acyclic binding state, t and u dereferenced through the cells after the *)
(* call are structurally identical.                                        *)
C3_UnifySound ==
    (IsCall("unify") /\ call.res = "Ok" /\ Acyclic(call.pre))
        => Deref(call.a, assignment) = Deref(call.b, assignment)

\* a successful unification of two predicates that differed before the call
C3_Witness ==
    /\ IsCall("unify") /\ call.res = "Ok" /\ Acyclic(call.pre)
    /\ call.a.tag = "Pred" /\ call.b.tag = "Pred"
    /\ Deref(call.a, call.pre) # Deref(call.b, call.pre)
    /\ \E id \in DOMAIN call.pre : call.pre[id] # None

(* C5: every terminating unify or derive call returns Ok or Err, no call   *)
(* aborts the interpreter.                                                 *)
C5_NoAbort ==
    call.op \in {"unify", "derive"} => call.res \in {"Ok", "Err"}

(* C8: a call gives the same outcome and the same final cells with the     *)
(* debug flag on and with it off.                                          *)
C8_TracingIsObserver ==
    /\ IsCall("unify") =>
          LET on == Term_unify(call.a, call.b, call.pre, {}, TRUE)
              off == Term_unify(call.a, call.b, call.pre, {}, FALSE)
          IN on.res = off.res /\ (off.res # "Abort" => on.cells = off.cells)
    /\ IsCall("derive") =>
          LET on == Predicate_derive(call.a, knowledge, call.pre, call.preID, TRUE, MaxDepth)
              off == Predicate_derive(call.a, knowledge, call.pre, call.preID, FALSE, MaxDepth)
          IN on.res = off.res /\ on.vs = off.vs
                /\ (off.res # "Abort" => on.cells = off.cells)

(* C10: unifying an unbound variable with itself returns Ok and changes no *)
(* cell.                                                                   *)
C10_SameVariable ==
    (IsCall("unify") /\ call.a.tag = "Var" /\ call.b = call.a
            /\ call.pre[call.a.id] = None)
        => (call.res = "Ok" /\ assignment = call.pre)

----------------------------------------------------------------------------
(* Ground facts *)

IsFact(cl) == cl.conditions = <<>> /\ Term_variables(cl.result) = {}

RECURSIVE Subst(_, _)
Subst(t, sigma) ==
    IF t.tag = "Var" THEN sigma[t]
    ELSE [t EXCEPT !.args = [i \in 1..Len(t.args) |-> Subst(t.args[i], sigma)]]

\* fact is goal with one value for each variable of goal
IsInstance(fact, goal) ==
    /\ fact.name = goal.name
    /\ Len(fact.args) = Len(goal.args)
    /\ \E sigma \in [Term_variables(goal) -> {fact.args[i] : i \in 1..Len(fact.args)}] :
           Subst(goal, sigma) = fact

Instances(goal, kb) == {i \in 1..Len(kb) : IsInstance(kb[i].result, goal)}

FirstInstance(goal, kb) ==
    CHOOSE i \in Instances(goal, kb) : \A j \in Instances(goal, kb) : i <= j

(* C2: against ground facts, a goal whose variables are unbound derives Ok *)
(* exactly when some fact is an instance of it, and then every argument of *)
(* the goal walks to the argument of the first such fact.                  *)
C2_FirstMatchingFact ==
    (/\ IsCall("derive")
     /\ \A i \in 1..Len(knowledge) : IsFact(knowledge[i])
     /\ \A v \in Predicate_variables(call.a) : call.pre[v.id] = None)
        => /\ call.res = "Ok" <=> Instances(call.a, knowledge) # {}
           /\ call.res = "Ok" =>
                 Deref(call.a, assignment) = knowledge[FirstInstance(call.a, knowledge)].result

----------------------------------------------------------------------------
(* Ancestors *)

ParentPairs(kb) ==
    {<<kb[i].result.args[1], kb[i].result.args[2]>> :
        i \in {j \in 1..Len(kb) : kb[j].result.name = "parent"}}

RECURSIVE Descendants(_, _)
Descendants(xs, kb) ==
    LET more == xs \cup {e[2] : e \in {pp \in ParentPairs(kb) : pp[1] \in xs}}
    IN IF more = xs THEN xs ELSE Descendants(more, kb)

Children(x, kb) == {e[2] : e \in {pp \in ParentPairs(kb) : pp[1] = x}}

\* y is reachable from x by one or more parent facts
IsAncestor(x, y, kb) == y \in Descendants(Children(x, kb), kb)

(* C4: on acyclic parent facts with the two ancestor rules, deriving a     *)
(* ground goal ancestor(x, y) terminates and returns Ok exactly when y is  *)
(* reachable from x by one or more parent facts.                           *)
C4_AncestorIsReachability ==
    (IsCall("derive") /\ call.a.name = "ancestor")
        => /\ call.res \in {"Ok", "Err"}
           /\ call.res = "Ok" <=> IsAncestor(call.a.args[1], call.a.args[2], knowledge)

----------------------------------------------------------------------------
(* Renaming *)

\* the variable occurrences of a term, of a list and of a clause, left to right
RECURSIVE Occurrences(_)
RECURSIVE ListOccurrences(_)
Occurrences(t) == IF t.tag = "Var" THEN <<t>> ELSE ListOccurrences(t.args)

ListOccurrences(ts) ==
    IF ts = <<>> THEN <<>> ELSE Occurrences(Head(ts)) \o ListOccurrences(Tail(ts))

ClauseOccurrences(cl) == Occurrences(cl.result) \o ListOccurrences(cl.conditions)

Range(seq) == {seq[i] : i \in 1..Len(seq)}

\* the variable identities in the argument and in the result of a renaming
RenamedFrom == 
    IF IsCall("instantiate_clause") THEN {Ident(v) : v \in Range(ClauseOccurrences(call.a))}
    ELSE {Ident(v) : v \in Range(Occurrences(call.a))}

RenamedTo == 
    IF IsCall("instantiate_clause") THEN {Ident(v) : v \in Range(ClauseOccurrences(call.out))}
    ELSE {Ident(v) : v \in Range(Occurrences(call.out))}

IsRenaming == call.op \in {"instantiate", "instantiate_clause"}

(* C6 as stated: the result of instantiate shares no variable identity     *)
(* with its argument, bound or not, and all its ids are new.               *)
C6_RenamedAllFresh ==
    IsRenaming =>
        /\ RenamedTo \cap RenamedFrom = {}
        /\ \A v \in RenamedTo : v[2] >= call.preID

(* C6 amended: instantiate keeps the variables of its argument that are    *)
(* bound and replaces the unbound ones by variables with new ids, so the   *)
(* result shares with the argument exactly the bound variables.            *)
C6_RenamedFreshUnlessBound ==
    IsRenaming =>
        /\ RenamedTo \cap RenamedFrom = {v \in RenamedFrom : call.pre[v[2]] # None}
        /\ \A v \in RenamedTo \ RenamedFrom :
              v[2] >= call.preID /\ v[2] \notin DOMAIN call.pre

\* a term with a bound and an unbound variable has been renamed
C6_Witness ==
    /\ IsCall("instantiate")
    /\ \E v \in RenamedFrom : call.pre[v[2]] # None
    /\ \E v \in RenamedFrom : call.pre[v[2]] = None
    /\ RenamedTo \ RenamedFrom # {}

(* C7: renaming a clause of unbound variables with one dict keeps the      *)
(* sharing: two positions hold the same variable in the result iff they do *)
(* in the clause; a second renaming shares no variable with the first.     *)
C7_RenamingKeepsSharing ==
    (IsCall("instantiate_clause")
        /\ \A v \in RenamedFrom : call.pre[v[2]] = None)
        => LET from == ClauseOccurrences(call.a)
               to == ClauseOccurrences(call.out)
               again == Clause_instantiate(call.a, EmptyDict, ID, assignment)
           IN /\ Len(to) = Len(from)
              /\ \A i \in 1..Len(from), j \in 1..Len(from) :
                    Ident(to[i]) = Ident(to[j]) <=> Ident(from[i]) = Ident(from[j])
              /\ {Ident(v) : v \in Range(ClauseOccurrences(again.out))} \cap RenamedTo = {}

\* a clause whose head and body share one variable and differ in another
C7_Witness ==
    /\ IsCall("instantiate_clause")
    /\ LET from == ClauseOccurrences(call.a) IN
          /\ Len(from) = 4
          /\ from[1] = from[3] /\ from[3] # from[4]
          /\ Ident(from[1]) \notin RenamedTo

----------------------------------------------------------------------------
(* Answers *)

(* C9: the set returned by a successful Predicate::derive is exactly the   *)
(* set of variables that occur in the goal as it was asked, at any depth:  *)
(* no variable made by renaming, none that occurs only in a binding.       *)
C9_AnswerVariables ==
    (IsCall("derive") /\ call.res = "Ok")
        => /\ \A v \in call.vs : v.id < call.preID
           /\ {Ident(v) : v \in call.vs} = {Ident(v) : v \in Range(Occurrences(call.a))}

\* a goal has succeeded against a renamed clause, and a variable of the goal
\* was bound before the call to a term with a variable that is not in the goal
C9_Witness ==
    /\ IsCall("derive") /\ call.res = "Ok"
    /\ ID > call.preID
    /\ \E v \in call.vs :
          \E w \in ReachableFrom({v.id}, call.pre) : w \notin {x.id : x \in call.vs}

----------------------------------------------------------------------------
(* Binding graph *)

(* C11: in every state the engine has returned to after unify and derive   *)
(* calls from all-unbound cells, no variable is reachable from its own     *)
(* binding cell through variable chains and predicate arguments.           *)
C11_AcyclicBindings == Running => Acyclic(assignment)

----------------------------------------------------------------------------
(* The knowledge base under derivation *)

Clause_variables(cl) == Predicate_variables(cl.result) \cup List_variables(cl.conditions)

\* the ids of the variables of the stored clauses
KnowledgeIds(kb) == UNION {{v.id : v \in Clause_variables(kb[i])} : i \in 1..Len(kb)}

(* C12: every step of the engine, a derive call that succeeds or fails     *)
(* included, leaves every stored clause as it was, variable ids included,  *)
(* leaves the cell of every variable of a stored clause unbound, and       *)
(* changes no cell of such a variable: only cells of question variables    *)
(* and of renamed clause copies are written.                               *)
C12_KnowledgeReadOnly ==
    [][ /\ knowledge' = knowledge
        /\ \A id \in KnowledgeIds(knowledge') : assignment'[id] = None
        /\ \A id \in DOMAIN assignment :
              assignment'[id] # assignment[id] => id \notin KnowledgeIds(knowledge) ]_vars

\* a derivation through a clause with variables that bound a question
\* variable and a variable of the renamed copy
C12_Witness ==
    /\ IsCall("derive") /\ call.res = "Ok"
    /\ KnowledgeIds(knowledge) # {}
    /\ \E id \in DOMAIN call.pre : assignment[id] # call.pre[id]
    /\ \E id \in DOMAIN assignment : id >= call.preID /\ assignment[id] # None

====
